---------------------------- MODULE Spec2Model ----------------------------
(***************************************************************************)
(* A model of two phrase-table classes of the decoder:                     *)
(*                                                                         *)
(*   PhraseDictionaryGroup          moses/TranslationModel/                *)
(*                                  PhraseDictionaryGroup.cpp              *)
(*   PhraseDictionaryALSuffixArray  moses/TranslationModel/RuleTable/      *)
(*                                  PhraseDictionaryALSuffixArray.cpp      *)
(*                                                                         *)
(* Spec   is the life of one PhraseDictionaryGroup: construction with its  *)
(*        parameters, Load, then lookups and sentence cleanups.            *)
(* SpecAL is the life of one PhraseDictionaryALSuffixArray.                *)
(*                                                                         *)
(* Floats are modelled as integers.  Loop indices are 0-based as in the    *)
(* source; sequences are 1-based, so m_memberPDs[i] of the source is       *)
(* m_memberPDs[i + 1] here.                                                *)
(***************************************************************************)
EXTENDS Integers, Sequences, FiniteSets

VARIABLES
  \* ---- environment of the group
  coll,                 \* PhraseDictionary::GetColl(): the registered tables
  tables,               \* what each registered table answers for the phrase
  \* ---- PhraseDictionaryGroup members
  m_memberPDStrs,
  m_numModels,
  m_restrict,
  m_haveDefaultScores,
  m_defaultScores,
  m_numScoreComponents,
  m_tableLimit,
  m_memberPDs,
  phraseCache,          \* GetPhraseCache()
  \* ---- control
  phase,                \* "constructed" | "loaded" | "failed"
  lastError,            \* the exception that ended the last operation, if any
  pc,                   \* which handler is running, and where it is
  \* ---- locals of CreateTargetPhraseCollection
  i,
  offset,
  ret_raw,
  pos,                  \* position of BOOST_FOREACH in *ret_raw
  allPhrases,
  allScores,
  ret,                  \* local of GetTargetPhraseCollectionLEGACY
  \* ---- observations
  returned,             \* ids of the lists handed back since the last clear
  hookLog,              \* member cleanup hooks called by the running cleanup
  cleanups,             \* sentence cleanups completed in a row, up to 2
  results,              \* the different results the lookups have produced
  \* ---- PhraseDictionaryALSuffixArray and its environment
  threadCount,          \* StaticData::ThreadCount()
  al_args,              \* m_args.size() after the base class read the line
  al_state,             \* "none" | "constructed" | "loaded" | "failed"
  al_error,
  m_collection,         \* the rules held by the table
  al_begun,             \* translation ids of InitializeForInput calls since
                        \* the last cleanup, with the outcome of each
  al_last               \* the last operation of the table and its argument

grpVars == <<coll, tables, m_memberPDStrs, m_numModels, m_restrict,
             m_haveDefaultScores, m_defaultScores, m_numScoreComponents,
             m_tableLimit, m_memberPDs, phraseCache, phase, lastError, pc,
             i, offset, ret_raw, pos, allPhrases, allScores, ret, returned,
             hookLog, cleanups, results>>

alVars == <<threadCount, al_args, al_state, al_error, m_collection,
            al_begun, al_last>>

vars == <<grpVars, alVars>>

---------------------------------------------------------------------------
(* Bounds of the model *)

\* largest configured number of score components (num-features)
MaxWidth == 3
\* lookups between two sentence cleanups
MaxLookups == 2
\* largest configured number of worker threads
MaxThreads == 2
\* translation ids run over 0 .. MaxTranslationId
MaxTranslationId == 2
\* InitializeForInput calls between two cleanups of the suffix-array table
MaxInputs == 2

\* identifiers a table can be registered under, or a member be named by
Names == {"A", "B"}
\* the tables that can be registered: a name and a number of components
PDKinds == {[name |-> "A", numScoreComponents |-> 1],
            [name |-> "B", numScoreComponents |-> 2]}
\* number of tables in the registry
CollSizes == {2}
\* number of configured member names
MemberCounts == {0, 1, 2}
\* candidate keys (target phrase content)
Keys == {"x", "y"}
\* lengths of a member's answer
RawLens == {0, 1, 2}
\* table limits
TableLimits == {0, 1, 2}
\* the rules of one grammar file
GrammarRuleIds == {1, 2}
\* leftover arguments of the suffix-array table's feature line
LeftoverArgs == {0, 1}

---------------------------------------------------------------------------
(* Helpers *)

SeqsOfLen(S, n) == [1..n -> S]

SeqsOfLens(S, L) == UNION {SeqsOfLen(S, n) : n \in L}

Range(s) == {s[n] : n \in DOMAIN s}

RECURSIVE SumSeq(_)
SumSeq(s) == IF s = <<>> THEN 0 ELSE s[1] + SumSeq(Tail(s))

\* std::vector<float>(n, v)
Fill(n, v) == [j \in 1..n |-> v]

NoExtra == [n \in {} |-> 0]

---------------------------------------------------------------------------
(* PhraseDictionaryGroup: construction *)

\* The object as the constructor's initialiser list leaves it.
Constructed ==
  [m_memberPDStrs |-> <<>>, m_numModels |-> 0, m_restrict |-> FALSE,
   m_haveDefaultScores |-> FALSE, m_defaultScores |-> <<>>]

\* SetParameter(key, value) on object o.  Values arrive tokenized and
\* scanned: the members as a sequence of names, the scores as a sequence of
\* numbers.
SetParameter(o, key, value) ==
  IF key = "members"
    THEN [o EXCEPT !.m_memberPDStrs = value, !.m_numModels = Len(value)]
  ELSE IF key = "restrict"
    THEN [o EXCEPT !.m_restrict = value]
  ELSE IF key = "default-scores"
    THEN [o EXCEPT !.m_haveDefaultScores = TRUE, !.m_defaultScores = value]
  ELSE o

\* ReadParameters(): SetParameter for every key of the line, in order.
RECURSIVE ReadParameters(_, _)
ReadParameters(o, args) ==
  IF args = <<>> THEN o
  ELSE ReadParameters(SetParameter(o, args[1][1], args[1][2]), Tail(args))

\* The feature lines the model constructs the group from.
ParameterLines ==
  { mem \o res \o def :
      mem \in {<<>>} \cup { << <<"members", s>> >> :
                              s \in SeqsOfLens(Names, MemberCounts) },
      res \in {<<>>} \cup { << <<"restrict", b>> >> : b \in BOOLEAN },
      def \in {<<>>} \cup { << <<"default-scores", [j \in 1..n |-> 90 + j]>> >> :
                              n \in 1..MaxWidth } }

\* The registries: every sequence of CollSizes tables.
Registries == SeqsOfLens(PDKinds, CollSizes)

---------------------------------------------------------------------------
(* PhraseDictionaryGroup::Load *)

\* A search that takes every table of the registry, whatever its name.
RECURSIVE MatchesAnyName(_, _, _)
MatchesAnyName(c, pdName, p) ==
  IF p > Len(c) THEN <<>> ELSE <<p>> \o MatchesAnyName(c, pdName, p + 1)

\* The inner BOOST_FOREACH of Load for one pdName: the tables of the registry
\* whose description is pdName, in registry order.
RECURSIVE MatchesFrom(_, _, _)
MatchesFrom(c, pdName, p) ==
  IF p > Len(c) THEN <<>>
  ELSE (IF c[p].name = pdName THEN <<p>> ELSE <<>>)
         \o MatchesFrom(c, pdName, p + 1)

\* The outer BOOST_FOREACH of Load from the n-th name on: binds the members
\* and sums their components until a name is not found.
RECURSIVE LocateMembers(_, _, _, _, _)
LocateMembers(c, strs, n, pds, componentWeights) ==
  IF n > Len(strs)
    THEN [pdFound |-> TRUE, pds |-> pds, componentWeights |-> componentWeights]
  ELSE LET found == MatchesFrom(c, strs[n], 1)
           w == SumSeq([k \in 1..Len(found) |-> c[found[k]].numScoreComponents])
       IN IF found = <<>>
            THEN [pdFound |-> FALSE, pds |-> pds,
                  componentWeights |-> componentWeights]
          ELSE LocateMembers(c, strs, n + 1, pds \o found, componentWeights + w)

\* A check that only refuses too many components.
WidthMismatchIfLarger(componentWeights, numScoreComponents) ==
  componentWeights > numScoreComponents

\* Whether the total of the members' components is the configured width.
WidthMismatch(componentWeights, numScoreComponents) ==
  componentWeights # numScoreComponents

\* A check that only refuses too few default scores.
DefaultsMismatchIfShorter(haveDefaultScores, defaultScores, numScoreComponents) ==
  haveDefaultScores /\ Len(defaultScores) < numScoreComponents

\* The "zero" scores: the configured ones, which must be as long as the
\* width, or all 0.
DefaultsMismatch(haveDefaultScores, defaultScores, numScoreComponents) ==
  haveDefaultScores /\ Len(defaultScores) # numScoreComponents

Load ==
  /\ phase = "constructed"
  /\ pc = "idle"
  /\ LET r == LocateMembers(coll, m_memberPDStrs, 1, m_memberPDs, 0)
     IN /\ m_memberPDs' = r.pds
        /\ IF ~r.pdFound
             THEN /\ phase' = "failed"
                  /\ lastError' = "Could not find member phrase table"
                  /\ UNCHANGED m_defaultScores
           ELSE IF WidthMismatch(r.componentWeights, m_numScoreComponents)
             THEN /\ phase' = "failed"
                  /\ lastError' = "Total number of member model scores is unequal to specified number of scores"
                  /\ UNCHANGED m_defaultScores
           ELSE IF DefaultsMismatch(m_haveDefaultScores, m_defaultScores,
                                    m_numScoreComponents)
             THEN /\ phase' = "failed"
                  /\ lastError' = "Number of specified default scores is unequal to number of member model scores"
                  /\ UNCHANGED m_defaultScores
           ELSE /\ phase' = "loaded"
                /\ lastError' = "none"
                /\ m_defaultScores' =
                     IF m_haveDefaultScores THEN m_defaultScores
                     ELSE Fill(m_numScoreComponents, 0)
  /\ UNCHANGED <<coll, tables, m_memberPDStrs, m_numModels, m_restrict,
                 m_haveDefaultScores, m_numScoreComponents, m_tableLimit,
                 phraseCache, pc, i, offset, ret_raw, pos, allPhrases,
                 allScores, ret, returned, hookLog, cleanups, results>>
  /\ UNCHANGED alVars


---------------------------------------------------------------------------
(* The member tables' answers *)

NullCollection == [isNull |-> TRUE, phrases |-> <<>>]

\* A table that has not been asked yet.
NotAsked == [asked |-> FALSE, isNull |-> TRUE, phrases |-> <<>>]

\* The target phrases a table with K components can hold for the source
\* phrase: the content (key), the table's K raw scores, the extra scores,
\* and the rest of the object (alignment, properties), which is not part of
\* the key.  Two phrases with key x differ in all but the key.
TargetPhrases(K) ==
  { [key |-> "x", scores |-> [j \in 1..K |-> 10 + j],
     extra |-> [n \in {"e"} |-> 1], rest |-> 1],
    [key |-> "x", scores |-> [j \in 1..K |-> 20 + j],
     extra |-> [n \in {"f"} |-> 2], rest |-> 2],
    [key |-> "y", scores |-> [j \in 1..K |-> 30 + j],
     extra |-> NoExtra, rest |-> 3] }

\* What GetTargetPhraseCollectionLEGACY(ttask, src) of a member with K
\* components can return: NULL, or a collection of target phrases.
Collections(K) ==
  {NullCollection} \cup
  { [isNull |-> FALSE, phrases |-> s] : s \in SeqsOfLens(TargetPhrases(K), RawLens) }

---------------------------------------------------------------------------
(* PhraseDictionaryGroup::CreateTargetPhraseCollection *)

\* new TargetPhrase(*targetPhrase): the copy carries the content, the extra
\* scores and the rest of the object.
CopyTargetPhrase(targetPhrase) ==
  [key |-> targetPhrase.key, extra |-> targetPhrase.extra,
   rest |-> targetPhrase.rest]

\* phrase->SetExtraScores(pair.first, pair.second) for every pair of `extra`.
SetExtraScores(phrase, extra) ==
  [phrase EXCEPT !.extra =
     [n \in DOMAIN phrase.extra \cup DOMAIN extra |->
        IF n \in DOMAIN extra THEN extra[n] ELSE phrase.extra[n]]]

\* A copy that forgets the offset: scores[j] = raw_scores[j].
CopyScoresNoOffset(scores, off, raw_scores, K) ==
  [n \in DOMAIN scores |->
     IF (n - 1) \in 0 .. (K - 1) THEN raw_scores[n] ELSE scores[n]]

\* for j < K: scores[offset + j] = raw_scores[j]
CopyScores(scores, off, raw_scores, K) ==
  [n \in DOMAIN scores |->
     IF (n - 1) \in off .. (off + K - 1) THEN raw_scores[n - off] ELSE scores[n]]

\* A test that is off by one: if (m_restrict && i > 1) continue;
RejectedAfterSecond(restrict, model) == restrict /\ model > 1

\* A group that never restricts.
RejectedNever(restrict, model) == FALSE

\* if (m_restrict && i > 0) continue;
Rejected(restrict, model) == restrict /\ model > 0

\* The new entry of allScores and the new phrase of allPhrases.
AddPhrase(phrases, scoresMap, targetPhrase, defaultScores) ==
  [allPhrases |-> Append(phrases, CopyTargetPhrase(targetPhrase)),
   allScores |->
     [k \in DOMAIN scoresMap \cup {targetPhrase.key} |->
        IF k = targetPhrase.key
          THEN [phrase |-> Len(phrases) + 1, scores |-> defaultScores]
          ELSE scoresMap[k]]]

\* An existing phrase whose extra scores are left as they are.
MergeExtraSkipped(phrases, scoresMap, targetPhrase) ==
  [allPhrases |-> phrases, allScores |-> scoresMap]

\* An existing phrase that is replaced by a copy of the new occurrence.
MergeExtraReplaces(phrases, scoresMap, targetPhrase) ==
  [allPhrases |->
     [phrases EXCEPT ![scoresMap[targetPhrase.key].phrase] =
        CopyTargetPhrase(targetPhrase)],
   allScores |-> scoresMap]

\* For existing phrases: merge extra scores.
MergeExtra(phrases, scoresMap, targetPhrase) ==
  [allPhrases |->
     [phrases EXCEPT ![scoresMap[targetPhrase.key].phrase] =
        SetExtraScores(@, targetPhrase.extra)],
   allScores |-> scoresMap]

\* A vector that outlives the call: the phrases of the call before are
\* still in it.
NewPhrasesStatic(old) == old

\* vector<TargetPhrase*> allPhrases; a local, empty at every call, whatever
\* the call before left in its own.
NewPhrases(old) == <<>>

\* The message of the entry point without a translation task.
NoTaskError == "Don't call me without the translation task."

\* An entry point that registers an empty collection before it throws.
CacheWithoutTaskRegisters(cache) == Append(cache, [id |-> 0, phrases |-> <<>>])

\* What the entry point without a translation task does to the phrase
\* cache before it throws: nothing.
CacheWithoutTask(cache) == cache

\* GetTargetPhraseCollectionLEGACY(src), the entry point without a
\* translation task: UTIL_THROW2, whatever the state and the phrase.
GetTargetPhraseCollectionLEGACYWithoutTask ==
  /\ pc = "idle"
  /\ lastError' = NoTaskError
  /\ phraseCache' = CacheWithoutTask(phraseCache)
  /\ cleanups' = 0
  /\ UNCHANGED <<coll, tables, m_memberPDStrs, m_numModels, m_restrict,
                 m_haveDefaultScores, m_defaultScores, m_numScoreComponents,
                 m_tableLimit, m_memberPDs, phase, pc, i, offset, ret_raw,
                 pos, allPhrases, allScores, ret, returned, hookLog, results>>
  /\ UNCHANGED alVars

\* The entry point with a translation task: the locals of
\* CreateTargetPhraseCollection are set up.
GetTargetPhraseCollectionLEGACY ==
  /\ phase = "loaded"
  /\ pc = "idle"
  /\ Len(phraseCache) < MaxLookups
  /\ pc' = "model"
  /\ i' = 0
  /\ offset' = 0
  /\ allPhrases' = NewPhrases(allPhrases)
  /\ allScores' = [k \in {} |-> 0]
  /\ ret_raw' = NullCollection
  /\ pos' = 0
  /\ cleanups' = 0
  /\ lastError' = "none"
  /\ UNCHANGED <<coll, tables, m_memberPDStrs, m_numModels, m_restrict,
                 m_haveDefaultScores, m_defaultScores, m_numScoreComponents,
                 m_tableLimit, m_memberPDs, phraseCache, phase,
                 ret, returned, hookLog, results>>
  /\ UNCHANGED alVars

\* Collect phrases from this table.  A table answers the same phrase the
\* same way every time; its answer is drawn when it is first asked.
CollectFromModel ==
  /\ pc = "model"
  /\ i < m_numModels
  /\ LET p == m_memberPDs[i + 1]
     IN \E ans \in (IF tables[p].asked
                      THEN {[isNull |-> tables[p].isNull,
                             phrases |-> tables[p].phrases]}
                      ELSE Collections(coll[p].numScoreComponents)) :
          /\ tables' = [tables EXCEPT ![p] =
                          [asked |-> TRUE, isNull |-> ans.isNull,
                           phrases |-> ans.phrases]]
          /\ ret_raw' = ans
  /\ pos' = 1
  /\ pc' = "phrase"
  /\ UNCHANGED <<coll, m_memberPDStrs, m_numModels, m_restrict,
                 m_haveDefaultScores, m_defaultScores, m_numScoreComponents,
                 m_tableLimit, m_memberPDs, phraseCache, phase, lastError,
                 i, offset, allPhrases, allScores, ret, returned, hookLog,
                 cleanups, results>>
  /\ UNCHANGED alVars

\* One pass of the BOOST_FOREACH over *ret_raw.
ProcessPhrase ==
  /\ pc = "phrase"
  /\ ~ret_raw.isNull
  /\ pos <= Len(ret_raw.phrases)
  /\ LET targetPhrase == ret_raw.phrases[pos]
         K == coll[m_memberPDs[i + 1]].numScoreComponents
         raw_scores == targetPhrase.scores
     IN IF targetPhrase.key \notin DOMAIN allScores /\ Rejected(m_restrict, i)
          THEN UNCHANGED <<allPhrases, allScores>>
        ELSE LET st == IF targetPhrase.key \notin DOMAIN allScores
                         THEN AddPhrase(allPhrases, allScores, targetPhrase,
                                        m_defaultScores)
                         ELSE MergeExtra(allPhrases, allScores, targetPhrase)
             IN /\ allPhrases' = st.allPhrases
                /\ allScores' =
                     [st.allScores EXCEPT ![targetPhrase.key].scores =
                        CopyScores(@, offset, raw_scores, K)]
  /\ pos' = pos + 1
  /\ UNCHANGED <<coll, tables, m_memberPDStrs, m_numModels, m_restrict,
                 m_haveDefaultScores, m_defaultScores, m_numScoreComponents,
                 m_tableLimit, m_memberPDs, phraseCache, phase, lastError,
                 pc, i, offset, ret_raw, ret, returned, hookLog, cleanups, results>>
  /\ UNCHANGED alVars

\* offset += pd.GetNumScoreComponents(); ++i
NextModel ==
  /\ pc = "phrase"
  /\ ret_raw.isNull \/ pos > Len(ret_raw.phrases)
  /\ offset' = offset + coll[m_memberPDs[i + 1]].numScoreComponents
  /\ i' = i + 1
  /\ pc' = "model"
  /\ UNCHANGED <<coll, tables, m_memberPDStrs, m_numModels, m_restrict,
                 m_haveDefaultScores, m_defaultScores, m_numScoreComponents,
                 m_tableLimit, m_memberPDs, phraseCache, phase, lastError,
                 ret_raw, pos, allPhrases, allScores, ret, returned, hookLog,
                 cleanups, results>>
  /\ UNCHANGED alVars

\* Apply scores to phrases and add them to the return collection:
\* Assign(this, scores) makes the aggregated vector the phrase's scores.
ApplyScores(phrases, scoresMap) ==
  [n \in 1..Len(phrases) |->
     [key |-> phrases[n].key,
      scores |-> scoresMap[phrases[n].key].scores,
      extra |-> phrases[n].extra,
      rest |-> phrases[n].rest]]

---------------------------------------------------------------------------
(* TargetPhraseCollection::NthElement and the phrase cache *)

\* The score CompareTargetPhrase orders by, with every weight 1.
FutureScore(tp) == SumSeq(tp.scores)

Arrangements(n) ==
  { f \in [1..n -> 1..n] : \A a, b \in 1..n : f[a] = f[b] => a = b }

\* A pruning that only partitions: with 0 < tableLimit < size no phrase
\* from the tableLimit-th on precedes one before it, and the list is left as
\* it is otherwise; the phrases before the limit are in no order.
NthElementPartitions(list, tableLimit) ==
  IF tableLimit = 0 \/ tableLimit >= Len(list) THEN {list}
  ELSE { [n \in 1..Len(list) |-> list[f[n]]] : f \in
           { g \in Arrangements(Len(list)) :
               /\ \A a \in 1..tableLimit, b \in (tableLimit + 1)..Len(list) :
                    FutureScore(list[g[a]]) >= FutureScore(list[g[b]])
               /\ \A b \in (tableLimit + 2)..Len(list) :
                    FutureScore(list[g[tableLimit + 1]])
                      >= FutureScore(list[g[b]]) } }

\* ret->NthElement(m_tableLimit): the list is partially ordered by
\* descending score.  Its first tableLimit phrases are the best ones, best
\* first; the phrases beyond the limit are all there, in any order.
NthElement(list, tableLimit) ==
  LET size == Len(list)
      top == IF tableLimit < size THEN tableLimit ELSE size
  IN { [n \in 1..size |-> list[f[n]]] : f \in
         { g \in Arrangements(size) :
             \A a \in 1..top, b \in 1..size :
               a < b => FutureScore(list[g[a]]) >= FutureScore(list[g[b]]) } }

\* A cache that registers at the front.
CacheForCleanupFront(cache, tpc) == <<tpc>> \o cache

\* CacheForCleanup(tpc): ref.push_back(tpc)
CacheForCleanup(cache, tpc) == Append(cache, tpc)

\* The candidates of a list with their score vectors, whatever their order.
Candidates(list) ==
  {[key |-> list[n].key, scores |-> list[n].scores] : n \in DOMAIN list}

\* A collection that does not exist (yet).
NoCollection == [id |-> 0, phrases |-> <<>>]

\* The rest of GetTargetPhraseCollectionLEGACY(ttask, src) up to the return
\* statement: CreateTargetPhraseCollection returns the collection, which is
\* pruned and cached.  A collection is the list and the identity of its
\* shared pointer.
CacheCollection ==
  /\ pc = "model"
  /\ i >= m_numModels
  /\ \E list \in NthElement(ApplyScores(allPhrases, allScores), m_tableLimit) :
       /\ ret' = [id |-> Len(returned) + 1, phrases |-> list]
       /\ phraseCache' = CacheForCleanup(phraseCache, ret')
       /\ results' = results \cup {Candidates(list)}
  /\ pc' = "return"
  /\ UNCHANGED <<coll, tables, m_memberPDStrs, m_numModels, m_restrict,
                 m_haveDefaultScores, m_defaultScores, m_numScoreComponents,
                 m_tableLimit, m_memberPDs, phase, lastError, i, offset,
                 ret_raw, pos, allPhrases, allScores, returned, hookLog,
                 cleanups>>
  /\ UNCHANGED alVars

\* return ret;
ReturnCollection ==
  /\ pc = "return"
  /\ returned' = Append(returned, ret.id)
  /\ ret' = NoCollection
  /\ pc' = "idle"
  /\ UNCHANGED <<coll, tables, m_memberPDStrs, m_numModels, m_restrict,
                 m_haveDefaultScores, m_defaultScores, m_numScoreComponents,
                 m_tableLimit, m_memberPDs, phraseCache, phase, lastError,
                 i, offset, ret_raw, pos, allPhrases, allScores, hookLog,
                 cleanups, results>>
  /\ UNCHANGED alVars

---------------------------------------------------------------------------
(* PhraseDictionaryGroup::CleanUpAfterSentenceProcessing *)

\* A cleanup that releases the newest list only.
ClearCachePopBack(cache) ==
  IF cache = <<>> THEN cache ELSE SubSeq(cache, 1, Len(cache) - 1)

\* GetPhraseCache().clear()
ClearCache(cache) == <<>>

\* GetPhraseCache().clear(), then CleanUpComponentModels(source) is entered.
CleanUpAfterSentenceProcessing ==
  /\ phase = "loaded"
  /\ pc = "idle"
  /\ phraseCache' = ClearCache(phraseCache)
  /\ returned' = <<>>
  /\ hookLog' = <<>>
  /\ i' = 0
  /\ pc' = "cleanup"
  /\ lastError' = "none"
  /\ UNCHANGED <<coll, tables, m_memberPDStrs, m_numModels, m_restrict,
                 m_haveDefaultScores, m_defaultScores, m_numScoreComponents,
                 m_tableLimit, m_memberPDs, phase, offset,
                 ret_raw, pos, allPhrases, allScores, ret, cleanups, results>>
  /\ UNCHANGED alVars

\* The members the loop of CleanUpComponentModels visits.
CleanUpBound(numModels, memberPDs) == numModels

\* One pass of the loop of CleanUpComponentModels:
\* m_memberPDs[i]->CleanUpAfterSentenceProcessing(source)
CleanUpComponentModels ==
  /\ pc = "cleanup"
  /\ i < CleanUpBound(m_numModels, m_memberPDs)
  /\ hookLog' = Append(hookLog, m_memberPDs[i + 1])
  /\ i' = i + 1
  /\ UNCHANGED <<coll, tables, m_memberPDStrs, m_numModels, m_restrict,
                 m_haveDefaultScores, m_defaultScores, m_numScoreComponents,
                 m_tableLimit, m_memberPDs, phraseCache, phase, lastError,
                 pc, offset, ret_raw, pos, allPhrases, allScores, ret,
                 returned, cleanups, results>>
  /\ UNCHANGED alVars

\* The loop is over; both functions return.
CleanUpReturn ==
  /\ pc = "cleanup"
  /\ i >= CleanUpBound(m_numModels, m_memberPDs)
  /\ pc' = "idle"
  /\ hookLog' = <<>>
  /\ i' = 0
  /\ cleanups' = IF cleanups < 2 THEN cleanups + 1 ELSE cleanups
  /\ UNCHANGED <<coll, tables, m_memberPDStrs, m_numModels, m_restrict,
                 m_haveDefaultScores, m_defaultScores, m_numScoreComponents,
                 m_tableLimit, m_memberPDs, phraseCache, phase, lastError,
                 offset, ret_raw, pos, allPhrases, allScores, ret, returned,
                 results>>
  /\ UNCHANGED alVars

---------------------------------------------------------------------------
(* PhraseDictionaryALSuffixArray *)

\* A constructor that tolerates two threads.
NotThreadSafeAboveTwo(count) == count > 2

\* if (staticData.ThreadCount() > 1) throw runtime_error(...)
NotThreadSafe(count) == count > 1

\* The constructor: the thread count is tested, then CHECK(m_args.size() == 0).
ALConstruct ==
  /\ al_state = "none"
  /\ IF NotThreadSafe(threadCount)
       THEN /\ al_state' = "failed"
            /\ al_error' = "Suffix array implementation is not threadsafe"
     ELSE IF al_args # 0
       THEN /\ al_state' = "failed"
            /\ al_error' = "CHECK(m_args.size() == 0)"
     ELSE /\ al_state' = "constructed"
          /\ al_error' = "none"
  /\ al_last' = <<"Construct", 0>>
  /\ UNCHANGED <<threadCount, al_args, m_collection, al_begun>>
  /\ UNCHANGED grpVars

\* Load(): SetFeaturesToApply()
ALLoad ==
  /\ al_state = "constructed"
  /\ al_state' = "loaded"
  /\ al_last' = <<"Load", 0>>
  /\ UNCHANGED <<threadCount, al_args, al_error, m_collection, al_begun>>
  /\ UNCHANGED grpVars

\* The rules of the file grammar.<translationId>.gz.
GrammarRules(translationId) ==
  {[id |-> translationId, rule |-> r] : r \in GrammarRuleIds}

\* loader->Load(m_input, m_output, grammarFile, m_tableLimit, *this) that
\* succeeds: it returns true and has added the rules of the file to the
\* table.
LoadedOutcome(translationId) ==
  [ret |-> TRUE, rules |-> GrammarRules(translationId)]

\* A load that fails returns false; it may have added any part of the
\* file's rules to the table before it failed.
FailedOutcomes(translationId) ==
  {[ret |-> FALSE, rules |-> R] : R \in SUBSET GrammarRules(translationId)}

\* CHECK(ret) that fails ends the call with a fatal error; the error is
\* that of one sentence, and the table is there for the next one.
StateAfterFatalError == "loaded"

\* InitializeForInput(source): the rules of the sentence's grammar file are
\* loaded into the table, on top of what it holds; then CHECK(ret).
ALInitializeForInput ==
  /\ al_state = "loaded"
  /\ Len(al_begun) < MaxInputs
  /\ \E translationId \in 0..MaxTranslationId :
       \E out \in {LoadedOutcome(translationId)}
                    \cup FailedOutcomes(translationId) :
         /\ m_collection' = m_collection \cup out.rules
         /\ al_error' = IF out.ret THEN "none" ELSE "CHECK(ret)"
         /\ al_state' = IF out.ret THEN al_state ELSE StateAfterFatalError
         /\ al_begun' = Append(al_begun, [id |-> translationId, ok |-> out.ret])
         /\ al_last' = <<"InitializeForInput", translationId>>
  /\ UNCHANGED <<threadCount, al_args>>
  /\ UNCHANGED grpVars

\* CleanUpAfterSentenceProcessing(source): m_collection.Clear()
ALCleanUpAfterSentenceProcessing ==
  /\ al_state = "loaded"
  /\ m_collection' = {}
  /\ al_error' = "none"
  /\ al_begun' = <<>>
  /\ al_last' = <<"CleanUpAfterSentenceProcessing", 0>>
  /\ UNCHANGED <<threadCount, al_args, al_state>>
  /\ UNCHANGED grpVars

---------------------------------------------------------------------------
(* Initial states *)

ALIdle ==
  /\ threadCount = 1
  /\ al_args = 0
  /\ al_state = "none"
  /\ al_error = "none"
  /\ m_collection = {}
  /\ al_begun = <<>>
  /\ al_last = <<"none", 0>>

Init ==
  /\ coll \in Registries
  /\ tables = [p \in DOMAIN coll |-> NotAsked]
  /\ \E line \in ParameterLines :
       LET o == ReadParameters(Constructed, line)
       IN /\ m_memberPDStrs = o.m_memberPDStrs
          /\ m_numModels = o.m_numModels
          /\ m_restrict = o.m_restrict
          /\ m_haveDefaultScores = o.m_haveDefaultScores
          /\ m_defaultScores = o.m_defaultScores
  /\ m_numScoreComponents \in 1..MaxWidth
  /\ m_tableLimit \in TableLimits
  /\ m_memberPDs = <<>>
  /\ phraseCache = <<>>
  /\ phase = "constructed"
  /\ lastError = "none"
  /\ pc = "idle"
  /\ i = 0
  /\ offset = 0
  /\ ret_raw = NullCollection
  /\ pos = 0
  /\ allPhrases = <<>>
  /\ allScores = [k \in {} |-> 0]
  /\ ret = NoCollection
  /\ returned = <<>>
  /\ hookLog = <<>>
  /\ cleanups = 0
  /\ results = {}
  /\ ALIdle

Next ==
  \/ Load
  \/ GetTargetPhraseCollectionLEGACYWithoutTask
  \/ GetTargetPhraseCollectionLEGACY
  \/ CollectFromModel
  \/ ProcessPhrase
  \/ NextModel
  \/ CacheCollection
  \/ ReturnCollection
  \/ CleanUpAfterSentenceProcessing
  \/ CleanUpComponentModels
  \/ CleanUpReturn

Spec == Init /\ [][Next]_vars

\* A group that is constructed, with nothing registered and no parameters.
GroupIdle ==
  /\ coll = <<>>
  /\ tables = <<>>
  /\ m_memberPDStrs = Constructed.m_memberPDStrs
  /\ m_numModels = Constructed.m_numModels
  /\ m_restrict = Constructed.m_restrict
  /\ m_haveDefaultScores = Constructed.m_haveDefaultScores
  /\ m_defaultScores = Constructed.m_defaultScores
  /\ m_numScoreComponents = 1
  /\ m_tableLimit = 0
  /\ m_memberPDs = <<>>
  /\ phraseCache = <<>>
  /\ phase = "constructed"
  /\ lastError = "none"
  /\ pc = "off"
  /\ i = 0
  /\ offset = 0
  /\ ret_raw = NullCollection
  /\ pos = 0
  /\ allPhrases = <<>>
  /\ allScores = [k \in {} |-> 0]
  /\ ret = NoCollection
  /\ returned = <<>>
  /\ hookLog = <<>>
  /\ cleanups = 0
  /\ results = {}

InitAL ==
  /\ threadCount \in 1..MaxThreads
  /\ al_args \in LeftoverArgs
  /\ al_state = "none"
  /\ al_error = "none"
  /\ m_collection = {}
  /\ al_begun = <<>>
  /\ al_last = <<"none", 0>>
  /\ GroupIdle

NextAL ==
  \/ ALConstruct
  \/ ALLoad
  \/ ALInitializeForInput
  \/ ALCleanUpAfterSentenceProcessing

SpecAL == InitAL /\ [][NextAL]_vars

---------------------------------------------------------------------------
(* What the properties speak of *)

\* The members a lookup consults: m_memberPDs[m] for m < m_numModels.
Consulted == 0..(m_numModels - 1)

\* The number of score components of member m.
MemberWidth(m) == coll[m_memberPDs[m + 1]].numScoreComponents

\* The first position of member m's segment: the sum of the widths of the
\* members before it.
MemberOffset(m) == SumSeq([j \in 1..m |-> MemberWidth(j - 1)])

\* What member m answers for the phrase.
Answer(m) == tables[m_memberPDs[m + 1]]

\* The keys of the target phrases of an answer.
AnswerKeys(ans) ==
  IF ans.isNull THEN {} ELSE {ans.phrases[n].key : n \in DOMAIN ans.phrases}

\* The last target phrase with key k of an answer that holds one.
LastWithKey(ans, k) ==
  LET at == {n \in DOMAIN ans.phrases : ans.phrases[n].key = k}
  IN ans.phrases[CHOOSE n \in at : \A o \in at : o <= n]

\* Positions off+1 .. off+K of scores are the K values of seg.
SegmentIs(scores, off, K, seg) ==
  /\ off + K <= Len(scores)
  /\ \A j \in 1..K : scores[off + j] = seg[j]

\* In entry e, the segment of member m holds m's raw scores for e's key when
\* m returned the key (the last one, had it returned several), and else the
\* default scores of these positions.
SegmentRight(e, m) ==
  IF e.key \in AnswerKeys(Answer(m))
    THEN SegmentIs(e.scores, MemberOffset(m), MemberWidth(m),
                   LastWithKey(Answer(m), e.key).scores)
    ELSE SegmentIs(e.scores, MemberOffset(m), MemberWidth(m),
                   [j \in 1..MemberWidth(m) |->
                      m_defaultScores[MemberOffset(m) + j]])

\* The keys of a list of entries, and whether no two entries share a key.
ListKeys(list) == {list[n].key : n \in DOMAIN list}

KeysDistinct(list) ==
  \A a, b \in DOMAIN list : list[a].key = list[b].key => a = b

\* The lists the cache holds.
CachedLists == {phraseCache[c].phrases : c \in DOMAIN phraseCache}

---------------------------------------------------------------------------
(* Properties *)

\* C1: with restrict disabled, every list a lookup produced holds exactly one
\* entry per key some consulted member returned, and in every entry the
\* segment [offset_m, offset_m + K_m) of every member m holds m's raw scores
\* for the key if m returned it, and the default scores of these positions
\* otherwise.
C1_MergedSegments ==
  (phase = "loaded" /\ ~m_restrict) =>
    \A list \in CachedLists :
      /\ KeysDistinct(list)
      /\ ListKeys(list) = UNION {AnswerKeys(Answer(m)) : m \in Consulted}
      /\ \A n \in DOMAIN list : \A m \in Consulted : SegmentRight(list[n], m)

\* C1's case: two members, restrict disabled, and a list with an entry the
\* first member did not return (its first segment is the default) and an
\* entry both returned.
C1_Witness ==
  /\ phase = "loaded" /\ ~m_restrict /\ m_numModels = 2
  /\ \E list \in CachedLists : \E a, b \in DOMAIN list :
       /\ list[a].key \notin AnswerKeys(Answer(0))
       /\ list[a].key \in AnswerKeys(Answer(1))
       /\ list[b].key \in AnswerKeys(Answer(0)) \cap AnswerKeys(Answer(1))
       /\ MemberOffset(1) > 0

\* C2: with restrict enabled, no list a lookup produced holds a key that
\* member 0 did not return, and the entries it holds carry the later
\* members' segments.
C2_RestrictToFirst ==
  (phase = "loaded" /\ m_restrict) =>
    \A list \in CachedLists :
      /\ ListKeys(list) \subseteq AnswerKeys(Answer(0))
      /\ \A n \in DOMAIN list : \A m \in Consulted :
           m > 0 => SegmentRight(list[n], m)

\* C2's case: restrict enabled, member 1 proposed a key member 0 did not
\* return and also a key that member 0 returned.
C2_Witness ==
  /\ phase = "loaded" /\ m_restrict /\ m_numModels = 2
  /\ phraseCache # <<>>
  /\ AnswerKeys(Answer(1)) \ AnswerKeys(Answer(0)) # {}
  /\ AnswerKeys(Answer(1)) \cap AnswerKeys(Answer(0)) # {}

\* The sum of the components of the tables Load bound.
BoundWidth ==
  SumSeq([k \in 1..Len(m_memberPDs) |-> coll[m_memberPDs[k]].numScoreComponents])

\* C3: Load succeeds only if the components of the resolved members sum to
\* the configured width; when the sums differ Load ends in an error, and a
\* group whose Load failed is never looked up.
C3_WidthChecked ==
  /\ [](phase # "constructed" /\ BoundWidth # m_numScoreComponents
          => phase = "failed" /\ lastError # "none")
  /\ [](phase = "failed" => pc = "idle" /\ phraseCache = <<>>)
  /\ [][phase = "failed" => phase' = "failed"]_vars

\* C3's case: every name is resolved, the sum differs from the configured
\* width, and Load has raised the error.
C3_Witness ==
  /\ phase = "failed"
  /\ Len(m_memberPDs) >= Len(m_memberPDStrs)
  /\ m_memberPDStrs # <<>>
  /\ BoundWidth # m_numScoreComponents
  /\ lastError = "Total number of member model scores is unequal to specified number of scores"

\* The ids of the lists of the cache, in order.
CachedIds == [c \in DOMAIN phraseCache |-> phraseCache[c].id]

\* C4: a list is in the cache when it is handed back, and between two
\* handlers the cache holds, in call order, exactly the lists the lookups
\* since the last clear handed back.
C4_CacheHoldsReturned ==
  /\ pc = "return" => /\ CachedIds = Append(returned, ret.id)
                      /\ phraseCache[Len(phraseCache)] = ret
  /\ pc # "return" => CachedIds = returned

\* C4's case: two lookups have returned since the last clear.
C4_Witness ==
  /\ pc = "idle"
  /\ Len(returned) = 2
  /\ CachedIds = <<1, 2>>

\* C5: a sentence cleanup leaves the cache empty and raises no error,
\* whatever ran before it: lookups, another cleanup, or nothing; and it can
\* always be called between two handlers.
C5_CleanupIdempotent ==
  /\ (pc = "cleanup" \/ (pc = "idle" /\ cleanups > 0))
       => phraseCache = <<>> /\ lastError = "none"
  /\ (phase = "loaded" /\ pc = "idle") => ENABLED CleanUpAfterSentenceProcessing

\* C5's case: a cleanup that followed lookups and was followed by another
\* cleanup.
C5_Witness ==
  /\ pc = "idle"
  /\ cleanups = 2
  /\ \E p \in DOMAIN tables : tables[p].asked

\* C6: a sentence cleanup empties the cache before any member's hook runs,
\* and calls the hook of every bound member, in member order, once.
C6_HooksOfAllBound ==
  /\ pc = "cleanup" => phraseCache = <<>>
  /\ (pc = "cleanup" /\ ~ENABLED CleanUpComponentModels) => hookLog = m_memberPDs

\* The input of the last InitializeForInput call since the last cleanup.
LastBegun == al_begun[Len(al_begun)]

\* C7: the table holds rules of at most one input, the one begun last, and
\* none after a sentence cleanup.
C7_SnapshotOfOneInput ==
  /\ \A r \in m_collection : al_begun # <<>> /\ r.id = LastBegun.id
  /\ al_last[1] = "CleanUpAfterSentenceProcessing" => m_collection = {}

Contributors(k) ==
  UNION { {Answer(m).phrases[n] : n \in
             {o \in DOMAIN Answer(m).phrases : Answer(m).phrases[o].key = k}} :
          m \in Consulted }

\* C10: the extra scores of an entry are the union of the extra scores of
\* the target phrases with its key that the members returned: every name
\* one of them carries is there, and every entry comes from one of them.
C10_ExtraScoresUnion ==
  phase = "loaded" =>
    \A list \in CachedLists : \A n \in DOMAIN list :
      LET e == list[n]
      IN /\ DOMAIN e.extra = UNION {DOMAIN c.extra : c \in Contributors(e.key)}
         /\ \A x \in DOMAIN e.extra :
              \E c \in Contributors(e.key) :
                x \in DOMAIN c.extra /\ c.extra[x] = e.extra[x]

\* C10's case: two members returned the same key with extra scores of
\* different names, each name by one member only.
C10_Witness ==
  /\ phase = "loaded" /\ m_numModels = 2
  /\ \E list \in CachedLists : \E n \in DOMAIN list :
       /\ DOMAIN list[n].extra = {"e", "f"}
       /\ \A c \in {Answer(0).phrases[o] : o \in DOMAIN Answer(0).phrases} :
            c.key = list[n].key => DOMAIN c.extra = {"e"}
       /\ \A c \in {Answer(1).phrases[o] : o \in DOMAIN Answer(1).phrases} :
            c.key = list[n].key => DOMAIN c.extra = {"f"}

\* What a step of a running lookup leaves of the group: its configuration
\* and bindings as they were, and the cache as it was or with the list the
\* lookup returns appended.
LookupStepLeaves ==
  pc \in {"model", "phrase", "return"} =>
    /\ UNCHANGED <<coll, m_memberPDStrs, m_numModels, m_restrict,
                   m_haveDefaultScores, m_defaultScores,
                   m_numScoreComponents, m_tableLimit, m_memberPDs, phase>>
    /\ \/ phraseCache' = phraseCache
       \/ pc' = "return" /\ phraseCache' = Append(phraseCache, ret')

\* C11: every lookup produces the same candidates with the same score
\* vectors, whatever ran since the lookup before; a lookup starts from an
\* empty pending set, and all it does to the group is to append one list to
\* the cache.
C11_MergeDeterministic ==
  /\ [](Cardinality(results) <= 1)
  /\ []((pc = "model" /\ i = 0)
          => allPhrases = <<>> /\ DOMAIN allScores = {} /\ offset = 0)
  /\ [][LookupStepLeaves]_vars

\* C11's case: two lookups have produced lists of two candidates each, the
\* same candidates, and no lookup ever produced others.
C11_Witness ==
  /\ pc = "idle"
  /\ Len(phraseCache) = 2
  /\ \E c \in results : Cardinality(c) = 2
  /\ Cardinality(results) = 1
  /\ Candidates(phraseCache[1].phrases) = Candidates(phraseCache[2].phrases)

\* The configured names that no registered table carries.
Unresolved ==
  {n \in DOMAIN m_memberPDStrs :
     m_memberPDStrs[n] \notin {coll[p].name : p \in DOMAIN coll}}

\* C12: after a successful Load every configured name is the identifier of
\* a bound table and every bound table carries a configured name; when a
\* name matches no registered table, Load ends with the error of the
\* missing table and the group cannot be looked up.
C12_NamesResolved ==
  /\ phase = "loaded" =>
       /\ \A n \in DOMAIN m_memberPDStrs : \E k \in DOMAIN m_memberPDs :
            coll[m_memberPDs[k]].name = m_memberPDStrs[n]
       /\ \A k \in DOMAIN m_memberPDs :
            coll[m_memberPDs[k]].name \in Range(m_memberPDStrs)
  /\ (phase # "constructed" /\ Unresolved # {}) =>
       /\ phase = "failed"
       /\ lastError \in {"Could not find member phrase table", NoTaskError}
       /\ ~ENABLED GetTargetPhraseCollectionLEGACY
       /\ phraseCache = <<>>

\* C12's case: the first name is resolved, the second is not, and Load has
\* ended with the error.
C12_Witness ==
  /\ phase = "failed"
  /\ lastError = "Could not find member phrase table"
  /\ Len(m_memberPDStrs) = 2
  /\ Unresolved = {2}
  /\ m_memberPDs # <<>>

\* C13: in a loaded group the default scores are as many as the width, which
\* is the sum of the members' components: the configured ones, or zeros when
\* none were configured; configured scores of another length make Load fail.
C13_DefaultScoresWidth ==
  /\ phase = "loaded" =>
       /\ Len(m_defaultScores) = m_numScoreComponents
       /\ m_numScoreComponents = BoundWidth
       /\ m_haveDefaultScores =>
            m_defaultScores = [j \in 1..m_numScoreComponents |-> 90 + j]
       /\ ~m_haveDefaultScores =>
            m_defaultScores = [j \in 1..m_numScoreComponents |-> 0]
  /\ (phase # "constructed" /\ m_haveDefaultScores
        /\ Len(m_defaultScores) # m_numScoreComponents) => phase = "failed"

\* C13's case: a loaded group without configured default scores, of width 3,
\* after lookups and a cleanup.
C13_Witness ==
  /\ phase = "loaded"
  /\ ~m_haveDefaultScores
  /\ m_defaultScores = <<0, 0, 0>>
  /\ cleanups > 0
  /\ results # {}

\* C14: the entry point without a translation task can be called whenever
\* no handler runs, in every phase of the group; it ends with its error,
\* asks no table and leaves the cache and everything else of the group as
\* they are.
C14_WithoutTaskThrows ==
  /\ [](pc = "idle" => ENABLED GetTargetPhraseCollectionLEGACYWithoutTask)
  /\ [][lastError' = NoTaskError
          => UNCHANGED <<phraseCache, tables, pc, phase, returned, results,
                         m_memberPDs, i, offset, allPhrases, allScores, ret>>]_vars

\* C14's case: the entry point has thrown in a loaded group whose cache
\* holds a list.
C14_Witness ==
  /\ lastError = NoTaskError
  /\ phase = "loaded"
  /\ Len(phraseCache) = 1
  /\ \E p \in DOMAIN tables : tables[p].asked

\* Whether list holds the entries of merged, each once, in some order.
IsArrangement(list, merged) ==
  /\ Len(list) = Len(merged)
  /\ \E g \in Arrangements(Len(merged)) :
       list = [n \in 1..Len(merged) |-> merged[g[n]]]

\* Whether the first `limit` entries of list are in descending order of
\* score and score at least as high as every entry after them.
TopInOrder(list, limit) ==
  \A a \in DOMAIN list, b \in DOMAIN list :
    (a <= limit /\ a < b) => FutureScore(list[a]) >= FutureScore(list[b])

C16_OffsetsInOrder ==
  /\ (pc \in {"model", "phrase"} /\ i < m_numModels) =>
       /\ coll[m_memberPDs[i + 1]].name = m_memberPDStrs[i + 1]
       /\ offset = MemberOffset(i)
       /\ offset + MemberWidth(i) <= m_numScoreComponents
  /\ (pc = "model" /\ i = m_numModels) => offset = m_numScoreComponents

\* What processing a target phrase that restrict rejects leaves: the pending
\* set and every entry's scores and extra scores.
RejectedStepLeaves ==
  (/\ pc = "phrase"
   /\ ~ret_raw.isNull
   /\ pos <= Len(ret_raw.phrases)
   /\ m_restrict
   /\ i > 0
   /\ ret_raw.phrases[pos].key \notin DOMAIN allScores)
    => (UNCHANGED <<allPhrases, allScores>> /\ pos' = pos + 1)

\* C17: with restrict enabled, processing a target phrase of a member after
\* the first whose key is not in the pending set changes neither the pending
\* set nor any entry's scores or extra scores.
C17_RestrictDiscards == [][RejectedStepLeaves]_vars

\* C17's case: restrict is enabled, the second member's first target phrase
\* has just been processed, and its key is not in the pending set, which
\* holds an entry of the first member.
C17_Witness ==
  /\ pc = "phrase"
  /\ m_restrict
  /\ i = 1
  /\ pos = 2
  /\ ret_raw.phrases[1].key \notin DOMAIN allScores
  /\ allPhrases # <<>>

\* The first target phrase with key k of an answer that holds one.
FirstWithKey(ans, k) ==
  LET at == {n \in DOMAIN ans.phrases : ans.phrases[n].key = k}
  IN ans.phrases[CHOOSE n \in at : \A o \in at : n <= o]

\* The consulted members whose answer holds key k.
Returning(k) == {m \in Consulted : k \in AnswerKeys(Answer(m))}

\* C18: no list holds two entries of one key; an entry is the copy of the
\* first target phrase with its key of the first member that returned the
\* key, and the segment of every member that returned the key holds the raw
\* scores of the member's last target phrase with it.
C18_SameKeyCollapses ==
  phase = "loaded" =>
    \A list \in CachedLists :
      /\ KeysDistinct(list)
      /\ \A n \in DOMAIN list :
           LET e == list[n]
               first == CHOOSE m \in Returning(e.key) :
                          \A o \in Returning(e.key) : m <= o
           IN /\ Returning(e.key) # {}
              /\ e.rest = FirstWithKey(Answer(first), e.key).rest
              /\ \A m \in Returning(e.key) :
                   SegmentIs(e.scores, MemberOffset(m), MemberWidth(m),
                             LastWithKey(Answer(m), e.key).scores)

\* C18's case: one member returned two target phrases of one key that differ
\* in scores and in the rest, and the list holds the one entry of the key.
C18_Witness ==
  /\ phase = "loaded" /\ m_numModels = 1
  /\ Len(Answer(0).phrases) = 2
  /\ Answer(0).phrases[1].key = Answer(0).phrases[2].key
  /\ Answer(0).phrases[1].rest # Answer(0).phrases[2].rest
  /\ \E list \in CachedLists :
       /\ Len(list) = 1
       /\ list[1].rest = Answer(0).phrases[1].rest
       /\ SegmentIs(list[1].scores, 0, MemberWidth(0), Answer(0).phrases[2].scores)

\* C19: in a loaded group there are as many bound tables as configured
\* names, the j-th bound table carries the j-th name, and the components
\* summed at Load are those of the members a lookup consults.
C19_BoundAsConfigured ==
  phase = "loaded" =>
    /\ Len(m_memberPDs) = Len(m_memberPDStrs)
    /\ \A j \in DOMAIN m_memberPDs :
         coll[m_memberPDs[j]].name = m_memberPDStrs[j]
    /\ BoundWidth = SumSeq([m \in 1..m_numModels |-> MemberWidth(m - 1)])
    /\ Len(m_memberPDs) = CleanUpBound(m_numModels, m_memberPDs)


=============================================================================
